---- MODULE Spec2Model ----
(***************************************************************************)
(* Model of camera/facial_recognition.py: class FacialRecognition.         *)
(*                                                                         *)
(* Images are records: kind ("none" for Python's None, "array" for an      *)
(* ndarray), shape h x w (3 channels), whether cv2.resize accepts them,    *)
(* the embedding the ResNet extractor yields for the whole image (emb),    *)
(* and what the MTCNN detector returns for them on the 160x120 working     *)
(* image (raw).  A detector candidate is [box, confidence, feat]: box is   *)
(* <<x, y, width, height>>, confidence is in percent (0.70 is 70), feat is *)
(* the embedding of the landmark-aligned 100x100 face.  Embeddings are     *)
(* integer vectors; Euclidean distances are compared by their squares.     *)
(* File names and labels are sequences of tokens, "." being the extension  *)
(* separator: alice.jpg is <<"alice", ".", "jpg">>.                        *)
(***************************************************************************)
EXTENDS Integers, Sequences, FiniteSets, TLC

VARIABLES
    known_faces_features,   \* self.known_faces_features
    known_faces_labels,     \* self.known_faces_labels
    shape_predictor,        \* TRUE iff self.shape_predictor is loaded
    known_faces_dir,        \* os.listdir(settings.KNOWN_FACES_DIR), files with content
    faces_seen_dir,         \* TRUE iff MEDIA_ROOT/faces_seen exists
    files,                  \* file path -> image written there
    records,                \* rows of Face, in creation order
    now,                    \* the wall clock, in ticks
    saved,                  \* history of save_face_image calls: [t, img, label]
    call,                   \* the last call made and its arguments
    ret                     \* what that call returned or raised

vars == <<known_faces_features, known_faces_labels, shape_predictor,
          known_faces_dir, faces_seen_dir, files, records, now, saved,
          call, ret>>

---------------------------------------------------------------------------
\* Bounds of the model.
MaxFaces == 2
MaxFiles == 3
MaxGallery == 3
MaxRecords == 2
MaxTime == 2
TicksPerSecond == 2

\* Program constants.
WorkWidth == 160
WorkHeight == 120
BoxScale == 2
DefaultConfidence == 70
DefaultRecognition == 7
AlignedSize == 100
InputSize == 224
Channels == 3

---------------------------------------------------------------------------
\* Values.
None == [kind |-> "none", h |-> 0, w |-> 0, resizable |-> FALSE,
         emb |-> <<>>, raw |-> <<>>]

Array(h, w, resizable, emb, raw) ==
    [kind |-> "array", h |-> h, w |-> w, resizable |-> resizable,
     emb |-> emb, raw |-> raw]

\* The detector returns boxes of positive width and height.
Candidate(box, confidence, feat) ==
    [box |-> box, confidence |-> confidence, feat |-> feat]

Size(img) == img.h * img.w * Channels

SeqsUpTo(S, n) == UNION {[1..k -> S] : k \in 0..n}

---------------------------------------------------------------------------
\* _detect_faces

IsInvalidImage(img) == img.kind = "none" \/ Size(img) = 0

\* cv2.resize(img, (160, 120)) raises cv2.error
ResizeFails(img) == ~img.resizable

ScaleBox(box) == [k \in 1..4 |-> box[k] * BoxScale]

PassesConfidence_strict(face, confidence_threshold) ==
    face.confidence > confidence_threshold

PassesConfidence(face, confidence_threshold) ==
    face.confidence >= confidence_threshold

_detect_faces_uncaught(img, confidence_threshold) ==
    IF IsInvalidImage(img)
    THEN [faces |-> <<>>, invoked |-> FALSE, raised |-> FALSE,
          log |-> <<"image empty or None">>]
    ELSE IF ResizeFails(img)
    THEN [faces |-> <<>>, invoked |-> FALSE, raised |-> TRUE, log |-> <<>>]
    ELSE LET faces == [i \in 1..Len(img.raw) |->
                          [img.raw[i] EXCEPT !.box = ScaleBox(@)]]
             Keep(face) == PassesConfidence(face, confidence_threshold)
         IN [faces |-> SelectSeq(faces, Keep), invoked |-> TRUE,
             raised |-> FALSE, log |-> <<>>]

_detect_faces(img, confidence_threshold) ==
    IF IsInvalidImage(img)
    THEN [faces |-> <<>>, invoked |-> FALSE, raised |-> FALSE,
          log |-> <<"image empty or None">>]
    ELSE IF ResizeFails(img)
    THEN [faces |-> <<>>, invoked |-> FALSE, raised |-> FALSE,
          log |-> <<"error resizing image">>]
    ELSE LET faces == [i \in 1..Len(img.raw) |->
                          [img.raw[i] EXCEPT !.box = ScaleBox(@)]]
             Keep(face) == PassesConfidence(face, confidence_threshold)
         IN [faces |-> SelectSeq(faces, Keep), invoked |-> TRUE,
             raised |-> FALSE, log |-> <<>>]

---------------------------------------------------------------------------
\* Inputs of direct _detect_faces calls.
DetectBoxes == {<<10, 10, 20, 20>>, <<-5, 30, 40, 40>>}
DetectConfidences == {60, DefaultConfidence, 90}
DetectFeats == {<<0, 0>>, <<7, 0>>}
DetectCandidates ==
    {Candidate(b, c, f) : b \in DetectBoxes, c \in DetectConfidences,
                          f \in DetectFeats}
DetectShapes == {<<0, 0>>, <<120, 160>>, <<240, 320>>, <<480, 640>>}
DetectImages ==
    {None} \cup
    {Array(s[1], s[2], r, <<0, 0>>, raw) :
        s \in DetectShapes, r \in BOOLEAN,
        raw \in SeqsUpTo(DetectCandidates, MaxFaces)}
ConfidenceThresholds == {DefaultConfidence, 90}

Idle == [op |-> "idle"]

InitStore ==
    /\ faces_seen_dir = FALSE
    /\ files = <<>>
    /\ records = <<>>
    /\ now = 0
    /\ saved = <<>>

\* A direct call _detect_faces(img, confidence_threshold): the arguments are
\* drawn by InitDetect, the call is made by DetectFaces.
InitDetect ==
    /\ known_faces_features = <<>>
    /\ known_faces_labels = <<>>
    /\ shape_predictor = FALSE
    /\ known_faces_dir = <<>>
    /\ InitStore
    /\ \E img \in DetectImages, thr \in ConfidenceThresholds :
          call = [op |-> "_detect_faces", img |-> img,
                  confidence_threshold |-> thr]
    /\ ret = Idle

DetectFaces ==
    /\ call.op = "_detect_faces"
    /\ ret' = _detect_faces(call.img, call.confidence_threshold)
    /\ UNCHANGED <<known_faces_features, known_faces_labels,
                   shape_predictor, known_faces_dir, faces_seen_dir,
                   files, records, now, saved, call>>

NextDetect == DetectFaces

SpecDetect == InitDetect /\ [][NextDetect]_vars

---------------------------------------------------------------------------
\* Properties of _detect_faces (under SpecDetect).

DetectReturned == call.op = "_detect_faces" /\ ret # Idle

\* The candidates of raw at or above thr, by position.
KeptIndexes(raw, thr) == {i \in 1..Len(raw) : raw[i].confidence >= thr}

\* The position in the result of kept candidate i.
KeptRank(raw, thr, i) == Cardinality({j \in KeptIndexes(raw, thr) : j <= i})

\* C5: every box _detect_faces returns is the detector's box on the 160x120
\* working image rescaled by the factor the image was downsampled by:
\* original width / 160 horizontally, original height / 120 vertically.
C5_BoxesInOriginalCoordinates ==
    (DetectReturned /\ ret.invoked) =>
        LET img == call.img
            raw == img.raw
            thr == call.confidence_threshold
        IN \A i \in KeptIndexes(raw, thr) :
              LET box == ret.faces[KeptRank(raw, thr, i)].box
              IN /\ box[1] * WorkWidth = raw[i].box[1] * img.w
                 /\ box[3] * WorkWidth = raw[i].box[3] * img.w
                 /\ box[2] * WorkHeight = raw[i].box[2] * img.h
                 /\ box[4] * WorkHeight = raw[i].box[4] * img.h

\* C9: a candidate is in the result of _detect_faces iff its confidence is
\* greater than or equal to confidence_threshold, and the candidates kept
\* stay in the detector's order.
C9_InclusiveConfidenceFilter ==
    (DetectReturned /\ ret.invoked) =>
        LET raw == call.img.raw
            thr == call.confidence_threshold
        IN /\ Len(ret.faces) = Cardinality(KeptIndexes(raw, thr))
           /\ \A i \in KeptIndexes(raw, thr) :
                 LET face == ret.faces[KeptRank(raw, thr, i)]
                 IN /\ face.confidence = raw[i].confidence
                    /\ face.feat = raw[i].feat

\* A call that kept a candidate at exactly the threshold, after dropping one
\* below it, and kept a later one too.
C9_Witness ==
    /\ DetectReturned
    /\ ret.invoked
    /\ Len(call.img.raw) = 2
    /\ call.img.raw[1].confidence < call.confidence_threshold
    /\ call.img.raw[2].confidence = call.confidence_threshold
    /\ Len(ret.faces) = 1

\* C10: for a None or zero-size image _detect_faces returns the empty
\* sequence without invoking the detector and without raising; when the
\* resize fails it returns the empty sequence and does not raise either.
C10_InvalidImageFailsSoft ==
    DetectReturned =>
        /\ (call.img.kind = "none" \/ call.img.h * call.img.w = 0) =>
              (ret.faces = <<>> /\ ~ret.invoked /\ ~ret.raised)
        /\ ~call.img.resizable => (ret.faces = <<>> /\ ~ret.raised)

\* A call on None that returned the empty sequence, the detector not
\* invoked.
C10_Witness ==
    /\ DetectReturned
    /\ call.img.kind = "none"
    /\ ret.faces = <<>>
    /\ ~ret.invoked
    /\ ~ret.raised

---------------------------------------------------------------------------
\* recognize_faces: the nearest-neighbour scan over the gallery.

Unknown == <<"Unknown">>

\* float('inf'), the initial min_distance; distances are >= 0.
Inf == -1

Min(a, b) == IF a <= b THEN a ELSE b

\* The square of distance.euclidean(u, v).
Dist2(u, v) ==
    LET d(k) == (u[k] - v[k]) * (u[k] - v[k])
    IN d(1) + d(2)

\* dist < min_distance
IsNearer_orEqual(dist, min_distance) ==
    min_distance = Inf \/ dist <= min_distance

IsNearer(dist, min_distance) ==
    min_distance = Inf \/ dist < min_distance

\* min_distance > recognition_threshold
ExceedsThreshold_inclusive(min_distance, recognition_threshold) ==
    \/ min_distance = Inf
    \/ recognition_threshold < 0
    \/ min_distance >= recognition_threshold * recognition_threshold

ExceedsThreshold(min_distance, recognition_threshold) ==
    \/ min_distance = Inf
    \/ recognition_threshold < 0
    \/ min_distance > recognition_threshold * recognition_threshold

\* The loop over zip(known_faces_features, known_faces_labels), from entry i.
RECURSIVE ScanGallery(_, _, _, _, _)
ScanGallery(features, known_features, known_labels, i, best) ==
    IF i > Min(Len(known_features), Len(known_labels))
    THEN best
    ELSE LET dist == Dist2(features, known_features[i])
         IN ScanGallery(features, known_features, known_labels, i + 1,
                IF IsNearer(dist, best.min_distance)
                THEN [min_distance |-> dist, label |-> known_labels[i]]
                ELSE best)

AssignLabel(features, known_features, known_labels, recognition_threshold) ==
    LET best == ScanGallery(features, known_features, known_labels, 1,
                            [min_distance |-> Inf, label |-> Unknown])
    IN IF ExceedsThreshold(best.min_distance, recognition_threshold)
       THEN Unknown
       ELSE best.label

---------------------------------------------------------------------------
\* Inputs of the scan: a gallery, a query embedding and a threshold are drawn
\* by InitMatch, the scan is made by MatchFace.
MatchEmbeddings == {<<0, 0>>, <<14, 0>>, <<0, 8>>}
MatchLabels == {<<"alice">>, <<"bob">>, <<"carol">>}
MatchQueries == {<<0, 0>>, <<7, 0>>, <<3, 4>>, <<0, 8>>}
RecognitionThresholds == {DefaultRecognition, 5}
MatchEntries ==
    {[features |-> e, label |-> l] : e \in MatchEmbeddings, l \in MatchLabels}

InitMatch ==
    /\ \E g \in SeqsUpTo(MatchEntries, MaxGallery) :
          /\ known_faces_features = [i \in 1..Len(g) |-> g[i].features]
          /\ known_faces_labels = [i \in 1..Len(g) |-> g[i].label]
    /\ shape_predictor = FALSE
    /\ known_faces_dir = <<>>
    /\ InitStore
    /\ \E q \in MatchQueries, thr \in RecognitionThresholds :
          call = [op |-> "match", features |-> q,
                  recognition_threshold |-> thr]
    /\ ret = Idle

MatchFace ==
    /\ call.op = "match"
    /\ ret' = [label |-> AssignLabel(call.features, known_faces_features,
                             known_faces_labels, call.recognition_threshold)]
    /\ UNCHANGED <<known_faces_features, known_faces_labels,
                   shape_predictor, known_faces_dir, faces_seen_dir,
                   files, records, now, saved, call>>

NextMatch == MatchFace

SpecMatch == InitMatch /\ [][NextMatch]_vars

---------------------------------------------------------------------------
\* Properties of the scan (under SpecMatch).

MatchReturned == call.op = "match" /\ ret # Idle

GalleryIndexes == 1..Len(known_faces_features)

QueryDist2(i) == Dist2(call.features, known_faces_features[i])

\* The gallery entries no other entry is nearer to the query than.
NearestIndexes ==
    {i \in GalleryIndexes : \A j \in GalleryIndexes : QueryDist2(i) <= QueryDist2(j)}

WithinThreshold(i) ==
    QueryDist2(i) <= call.recognition_threshold * call.recognition_threshold

\* C1: the label assigned is the label of a gallery entry at the minimum
\* distance from the query when that distance is <= recognition_threshold,
\* and "Unknown" when the minimum distance exceeds it or the gallery is empty.
C1_NearestWithinThresholdElseUnknown ==
    MatchReturned =>
        IF \E i \in NearestIndexes : WithinThreshold(i)
        THEN \E i \in NearestIndexes : ret.label = known_faces_labels[i]
        ELSE ret.label = Unknown

\* A query whose nearest entry is at exactly the threshold, and is matched.
C1_Witness ==
    /\ MatchReturned
    /\ \E i \in NearestIndexes :
          /\ QueryDist2(i) > 0
          /\ QueryDist2(i) =
                call.recognition_threshold * call.recognition_threshold
    /\ ret.label # Unknown

\* C2: when several gallery entries are at the same minimum distance, within
\* the threshold, the label assigned is that of the first of them in gallery
\* order.
C2_FirstNearestWinsTies ==
    (MatchReturned /\ \E i \in NearestIndexes : WithinThreshold(i)) =>
        LET first == CHOOSE i \in NearestIndexes :
                        \A j \in NearestIndexes : i <= j
        IN ret.label = known_faces_labels[first]

\* A tie between two entries of different labels, neither of them the first
\* entry of the gallery, decided for the earlier one.
C2_Witness ==
    /\ MatchReturned
    /\ \E i, j \in NearestIndexes :
          /\ 1 < i
          /\ i < j
          /\ known_faces_labels[i] # known_faces_labels[j]
          /\ WithinThreshold(i)
          /\ \A k \in NearestIndexes : i <= k
          /\ ret.label = known_faces_labels[i]

---------------------------------------------------------------------------
\* Alignment and feature extraction.

\* _extract_features returns None
NoFeatures == <<>>

\* _align_face: with the landmark predictor the face is warped to 100x100,
\* without it the image itself is returned.
_align_face(img, face) ==
    IF shape_predictor
    THEN Array(AlignedSize, AlignedSize, TRUE, face.feat, <<>>)
    ELSE img

\* _preprocess_image: None for a None or empty image, else the 224x224
\* input array.  The images that reach it were resized by _detect_faces or
\* come from cv2.warpAffine, so its cv2.resize does not raise.
_preprocess_image(img) ==
    IF img.kind = "none" \/ Size(img) = 0
    THEN None
    ELSE Array(InputSize, InputSize, TRUE, img.emb, <<>>)

_extract_features(img_array) ==
    IF img_array.kind = "none" THEN NoFeatures ELSE img_array.emb

_preprocess_and_extract(img) ==
    LET faces == _detect_faces(img, DefaultConfidence).faces
    IN IF faces # <<>>
       THEN LET aligned_face == _align_face(img, faces[1])
                face_array == _preprocess_image(aligned_face)
            IN IF face_array.kind = "none"
               THEN NoFeatures
               ELSE _extract_features(face_array)
       ELSE NoFeatures

---------------------------------------------------------------------------
\* load_known_faces

Dot == "."

\* filename.endswith(suffix)
endswith(filename, suffix) ==
    /\ Len(filename) >= Len(suffix)
    /\ SubSeq(filename, Len(filename) - Len(suffix) + 1, Len(filename)) = suffix

HasImageSuffix(filename) ==
    \/ endswith(filename, <<Dot, "jpg">>)
    \/ endswith(filename, <<Dot, "jpeg">>)
    \/ endswith(filename, <<Dot, "png">>)

\* p.rfind("."), 0 when there is none
rfindDot(p) ==
    LET dots == {i \in 1..Len(p) : p[i] = Dot}
    IN IF dots = {} THEN 0 ELSE CHOOSE i \in dots : \A j \in dots : j <= i

\* os.path.splitext(p)[0] of a name without directory separators: the text
\* before the last dot, unless only dots come before that dot.
splitext_root(p) ==
    LET dotIndex == rfindDot(p)
    IN IF dotIndex > 0 /\ \E k \in 1..(dotIndex - 1) : p[k] # Dot
       THEN SubSeq(p, 1, dotIndex - 1)
       ELSE p

\* One iteration of the loop of load_known_faces over entry i, and the rest.
RECURSIVE load_known_faces_noskip(_, _, _)
load_known_faces_noskip(listing, i, acc) ==
    IF i > Len(listing)
    THEN acc
    ELSE LET filename == listing[i].name
             label == splitext_root(filename)
             face_features == _preprocess_and_extract(listing[i].img)
         IN load_known_faces_noskip(listing, i + 1,
                IF ~HasImageSuffix(filename)
                THEN acc
                ELSE [features |-> Append(acc.features, face_features),
                      labels |-> Append(acc.labels, label),
                      log |-> acc.log])

RECURSIVE load_known_faces(_, _, _)
load_known_faces(listing, i, acc) ==
    IF i > Len(listing)
    THEN acc
    ELSE LET filename == listing[i].name
             label == splitext_root(filename)
             face_features == _preprocess_and_extract(listing[i].img)
         IN load_known_faces(listing, i + 1,
                IF ~HasImageSuffix(filename)
                THEN acc
                ELSE IF face_features # NoFeatures
                THEN [features |-> Append(acc.features, face_features),
                      labels |-> Append(acc.labels, label),
                      log |-> acc.log]
                ELSE [acc EXCEPT !.log = Append(@, <<"failed", label>>)])

EmptyGallery == [features |-> <<>>, labels |-> <<>>, log |-> <<>>]

---------------------------------------------------------------------------
\* The files of the gallery directory: name and what cv2.imread returns.

File(name, img) == [name |-> name, img |-> img]

FaceBox == <<10, 10, 20, 20>>

alice_jpg ==
    File(<<"alice", Dot, "jpg">>,
         Array(240, 320, TRUE, <<0, 1>>, <<Candidate(FaceBox, 90, <<0, 0>>)>>))

\* three candidates, the first below the confidence threshold
bob_jpeg ==
    File(<<"bob", Dot, "jpeg">>,
         Array(480, 640, TRUE, <<14, 1>>,
               <<Candidate(FaceBox, 60, <<9, 9>>),
                 Candidate(<<40, 10, 20, 20>>, 95, <<14, 0>>),
                 Candidate(<<80, 10, 20, 20>>, 80, <<0, 0>>)>>))

\* corrupt: cv2.imread returns None
junk_png == File(<<"junk", Dot, "png">>, None)

\* readable, the only candidate below the confidence threshold
carol_png ==
    File(<<"carol", Dot, "png">>,
         Array(240, 320, TRUE, <<0, 9>>, <<Candidate(FaceBox, 60, <<0, 8>>)>>))

dave_JPG ==
    File(<<"dave", Dot, "JPG">>,
         Array(240, 320, TRUE, <<5, 5>>, <<Candidate(FaceBox, 90, <<5, 6>>)>>))

notes_txt == File(<<"notes", Dot, "txt">>, None)

eve_tar_png ==
    File(<<"eve", Dot, "tar", Dot, "png">>,
         Array(240, 320, TRUE, <<0, 9>>, <<Candidate(FaceBox, 99, <<0, 8>>)>>))

\* a second picture of alice
alice_png ==
    File(<<"alice", Dot, "png">>,
         Array(240, 320, TRUE, <<1, 1>>, <<Candidate(FaceBox, 70, <<1, 0>>)>>))

\* a readable picture whose whole name is the suffix
dot_png ==
    File(<<Dot, "png">>,
         Array(240, 320, TRUE, <<2, 2>>, <<Candidate(FaceBox, 90, <<2, 3>>)>>))

AllFiles == {alice_jpg, bob_jpeg, junk_png, carol_png, dave_JPG, notes_txt,
             eve_tar_png, alice_png, dot_png}

\* The directory listings of up to n files among S, in any order.
Listings(S, n) ==
    {l \in SeqsUpTo(S, n) : \A i, j \in 1..Len(l) : i # j => l[i] # l[j]}

\* __init__: the gallery starts empty and load_known_faces fills it.  The
\* listing and the presence of the landmark model are drawn by InitLoad.
InitLoad ==
    /\ known_faces_features = <<>>
    /\ known_faces_labels = <<>>
    /\ shape_predictor \in BOOLEAN
    /\ known_faces_dir \in Listings(AllFiles, MaxFiles)
    /\ InitStore
    /\ call = [op |-> "__init__"]
    /\ ret = Idle

LoadKnownFaces ==
    /\ call.op = "__init__"
    /\ ret = Idle
    /\ LET g == load_known_faces(known_faces_dir, 1, EmptyGallery)
       IN /\ known_faces_features' = g.features
          /\ known_faces_labels' = g.labels
          /\ ret' = [raised |-> FALSE, log |-> g.log]
    /\ UNCHANGED <<shape_predictor, known_faces_dir, faces_seen_dir,
                   files, records, now, saved, call>>

NextLoad == LoadKnownFaces

SpecLoad == InitLoad /\ [][NextLoad]_vars

---------------------------------------------------------------------------
\* save_face_image

\* datetime.now().strftime('%Y%m%d_%H%M%S'): the clock cut to whole seconds.
strftime(t) == t \div TicksPerSecond

Filename(label, t) == <<label, "_", strftime(t), ".jpg">>

\* os.path.join(settings.MEDIA_ROOT, 'faces_seen', filename)
Filepath(label, t) == <<"MEDIA_ROOT", "faces_seen", Filename(label, t)>>

\* the image field of the record: f"faces_seen/{filename}"
ImageField(label, t) == <<"faces_seen", Filename(label, t)>>

\* cv2.imwrite(filepath, face_img)
imwrite(fs, filepath, face_img) ==
    [p \in DOMAIN fs \cup {filepath} |->
        IF p = filepath THEN face_img ELSE fs[p]]

\* A recorder that leaves an existing file and adds no record for it.
save_face_image_dedup(store, face_img, label, t) ==
    IF Filepath(label, t) \in DOMAIN store.files
    THEN [store EXCEPT !.faces_seen_dir = TRUE]
    ELSE [faces_seen_dir |-> TRUE,
          files |-> imwrite(store.files, Filepath(label, t), face_img),
          records |-> Append(store.records,
                             [name |-> label, image |-> ImageField(label, t)])]

\* The store [faces_seen_dir, files, records] after save_face_image(face_img,
\* label) at clock t.
save_face_image(store, face_img, label, t) ==
    [faces_seen_dir |-> TRUE,
     files |-> imwrite(store.files, Filepath(label, t), face_img),
     records |-> Append(store.records,
                        [name |-> label, image |-> ImageField(label, t)])]

---------------------------------------------------------------------------
\* recognize_faces

\* cv2.cvtColor(frame, ...) raises cv2.error on None and on an empty array.
cvtColorRaises(frame) == frame.kind = "none" \/ Size(frame) = 0

\* x < 0 or y < 0 or x + width > frame.shape[1] or y + height > frame.shape[0]
OutOfFrame_noLeft(frame, box) ==
    \/ box[2] < 0
    \/ box[1] + box[3] > frame.w
    \/ box[2] + box[4] > frame.h

OutOfFrame(frame, box) ==
    \/ box[1] < 0
    \/ box[2] < 0
    \/ box[1] + box[3] > frame.w
    \/ box[2] + box[4] > frame.h

\* frame[y:y + height, x:x + width], for a box inside the frame
Crop(frame, box) ==
    [x |-> box[1], y |-> box[2], w |-> box[3], h |-> box[4]]

\* The loop over the detected faces, from face i: acc holds recognized_faces
\* and the save_face_image calls made so far.
RECURSIVE RecognizeLoop(_, _, _, _, _)
RecognizeLoop(frame, faces, recognition_threshold, i, acc) ==
    IF i > Len(faces)
    THEN acc
    ELSE LET face == faces[i]
             face_array == _preprocess_image(_align_face(frame, face))
             features == _extract_features(face_array)
             label == AssignLabel(features, known_faces_features,
                                  known_faces_labels, recognition_threshold)
         IN RecognizeLoop(frame, faces, recognition_threshold, i + 1,
                IF OutOfFrame(frame, face.box) \/ face_array.kind = "none"
                THEN acc
                ELSE [recognized_faces |->
                          Append(acc.recognized_faces,
                                 [box |-> face.box,
                                  confidence |-> face.confidence,
                                  feat |-> face.feat, label |-> label]),
                      saves |->
                          Append(acc.saves,
                                 [face_img |-> Crop(frame, face.box),
                                  label |-> label])])

recognize_faces(frame, recognition_threshold) ==
    IF cvtColorRaises(frame)
    THEN [raised |-> TRUE, detected |-> <<>>, recognized_faces |-> <<>>,
          saves |-> <<>>]
    ELSE LET faces == _detect_faces(frame, DefaultConfidence).faces
             out == RecognizeLoop(frame, faces, recognition_threshold, 1,
                        [recognized_faces |-> <<>>, saves |-> <<>>])
         IN [raised |-> FALSE, detected |-> faces,
             recognized_faces |-> out.recognized_faces, saves |-> out.saves]

---------------------------------------------------------------------------
\* The running service: constructed, then called with frames.

MainFiles == {alice_jpg, bob_jpeg}

\* The frame is None, or the capture returned an empty array.
NoneFrame == None
EmptyFrame == Array(0, 0, TRUE, <<>>, <<>>)

\* 320x240: a box off the left edge, a face at equal distance from alice
\* and bob whose box ends on the right and bottom edges and whose confidence
\* is the threshold, a box past the right edge, and a candidate below the
\* confidence threshold.
StreetFrame ==
    Array(240, 320, TRUE, <<7, 1>>,
          <<Candidate(<<-5, 30, 40, 40>>, 80, <<0, 0>>),
            Candidate(<<140, 100, 20, 20>>, DefaultConfidence, <<7, 0>>),
            Candidate(<<150, 10, 20, 20>>, 95, <<14, 0>>),
            Candidate(<<50, 50, 10, 10>>, 60, <<14, 0>>)>>)

\* 320x240: two faces of the same person.
TwinFrame ==
    Array(240, 320, TRUE, <<0, 1>>,
          <<Candidate(<<10, 10, 20, 20>>, 90, <<0, 0>>),
            Candidate(<<60, 10, 20, 20>>, 85, <<3, 4>>)>>)

\* 640x480: one face of nobody in the gallery.
WideFrame ==
    Array(480, 640, TRUE, <<0, 9>>,
          <<Candidate(<<100, 20, 30, 30>>, 99, <<0, 8>>)>>)

\* a frame cv2.resize rejects
OddFrame ==
    Array(240, 320, FALSE, <<0, 0>>,
          <<Candidate(<<10, 10, 20, 20>>, 90, <<0, 0>>)>>)

Frames == {NoneFrame, EmptyFrame, StreetFrame, TwinFrame, WideFrame, OddFrame}

\* Arguments of direct save_face_image calls.
SaveImages == {[x |-> 0, y |-> 0, w |-> 8, h |-> 8]}
SaveLabels == {<<"alice">>, Unknown}

Store == [faces_seen_dir |-> faces_seen_dir, files |-> files,
          records |-> records]

Init ==
    /\ shape_predictor \in BOOLEAN
    /\ known_faces_dir \in Listings(MainFiles, MaxFiles)
    /\ LET g == load_known_faces(known_faces_dir, 1, EmptyGallery)
       IN /\ known_faces_features = g.features
          /\ known_faces_labels = g.labels
    /\ faces_seen_dir \in BOOLEAN
    /\ files = <<>>
    /\ records = <<>>
    /\ now = 0
    /\ saved = <<>>
    /\ call = Idle
    /\ ret = Idle

\* The clock after the first i of the delays d.
RECURSIVE ClockAfter(_, _, _)
ClockAfter(t, d, i) == IF i = 0 THEN t ELSE ClockAfter(t, d, i - 1) + d[i]

\* The store after the save_face_image calls saves[1..i], the k-th made at
\* clock ClockAfter(t, d, k).
RECURSIVE StoreAfter(_, _, _, _, _)
StoreAfter(store, saves, t, d, i) ==
    IF i = 0
    THEN store
    ELSE save_face_image(StoreAfter(store, saves, t, d, i - 1),
                         saves[i].face_img, saves[i].label,
                         ClockAfter(t, d, i))

\* recognize_faces(frame, recognition_threshold); d[k] is the time that
\* passes before the k-th save_face_image call reads the clock.
RecognizeFaces ==
    \E frame \in Frames, thr \in {DefaultRecognition} :
        LET out == recognize_faces(frame, thr)
            n == Len(out.saves)
        IN /\ Len(records) + n <= MaxRecords
           /\ \E d \in [1..n -> 0..1] :
                 LET after == StoreAfter(Store, out.saves, now, d, n)
                 IN /\ ClockAfter(now, d, n) <= MaxTime
                    /\ now' = ClockAfter(now, d, n)
                    /\ faces_seen_dir' = after.faces_seen_dir
                    /\ files' = after.files
                    /\ records' = after.records
                    /\ saved' = saved \o
                          [k \in 1..n |-> [t |-> ClockAfter(now, d, k),
                                           face_img |-> out.saves[k].face_img,
                                           label |-> out.saves[k].label]]
           /\ call' = [op |-> "recognize_faces", frame |-> frame,
                       recognition_threshold |-> thr]
           /\ ret' = out
           /\ UNCHANGED <<known_faces_features, known_faces_labels,
                          shape_predictor, known_faces_dir>>

\* A direct call save_face_image(face_img, label).
SaveFaceImage_extend ==
    \E face_img \in SaveImages, label \in SaveLabels :
        LET after == save_face_image(Store, face_img, label, now)
        IN /\ Len(records) < MaxRecords
           /\ faces_seen_dir' = after.faces_seen_dir
           /\ files' = after.files
           /\ records' = after.records
           /\ saved' = Append(saved, [t |-> now, face_img |-> face_img,
                                      label |-> label])
           /\ call' = [op |-> "save_face_image", face_img |-> face_img,
                       label |-> label]
           /\ ret' = [raised |-> FALSE]
           /\ known_faces_features' = Append(known_faces_features, <<0, 0>>)
           /\ known_faces_labels' = Append(known_faces_labels, label)
           /\ UNCHANGED <<shape_predictor, known_faces_dir, now>>

SaveFaceImage ==
    \E face_img \in SaveImages, label \in SaveLabels :
        LET after == save_face_image(Store, face_img, label, now)
        IN /\ Len(records) < MaxRecords
           /\ faces_seen_dir' = after.faces_seen_dir
           /\ files' = after.files
           /\ records' = after.records
           /\ saved' = Append(saved, [t |-> now, face_img |-> face_img,
                                      label |-> label])
           /\ call' = [op |-> "save_face_image", face_img |-> face_img,
                       label |-> label]
           /\ ret' = [raised |-> FALSE]
           /\ UNCHANGED <<known_faces_features, known_faces_labels,
                          shape_predictor, known_faces_dir, now>>

\* Time passes between calls.
Tick ==
    /\ now < MaxTime
    /\ now' = now + 1
    /\ UNCHANGED <<known_faces_features, known_faces_labels, shape_predictor,
                   known_faces_dir, faces_seen_dir, files, records, saved,
                   call, ret>>

Next == RecognizeFaces \/ SaveFaceImage \/ Tick

Spec == Init /\ [][Next]_vars

---------------------------------------------------------------------------
\* Properties of the running service (under Spec).

RecognizeCalled == call.op = "recognize_faces"

RecognizeReturned == RecognizeCalled /\ ~ret.raised

InFrame(frame, box) ==
    /\ box[1] >= 0
    /\ box[2] >= 0
    /\ box[1] + box[3] <= frame.w
    /\ box[2] + box[4] <= frame.h

\* The detected faces of the last call that were processed: box within the
\* frame, and an aligned image to extract from (the 100x100 warp, or the
\* frame itself, which is not empty).
ProcessedIndexes ==
    {i \in 1..Len(ret.detected) :
        /\ InFrame(call.frame, ret.detected[i].box)
        /\ (shape_predictor \/ call.frame.h * call.frame.w > 0)}

ProcessedRank(i) == Cardinality({j \in ProcessedIndexes : j <= i})

KnownLabels == {known_faces_labels[i] : i \in 1..Len(known_faces_labels)}

\* C3: in one recognize_faces call every detected face whose box lies within
\* the frame and whose extraction succeeds appears once in the returned
\* list, with a label, and triggers one save_face_image call, in detection
\* order; every other detected face appears nowhere in the list and triggers
\* no save_face_image call.
C3_ReturnedAndRecordedIffProcessed ==
    RecognizeReturned =>
        LET n == Cardinality(ProcessedIndexes)
            base == Len(saved) - n
        IN /\ Len(ret.recognized_faces) = n
           /\ Len(ret.saves) = n
           /\ base >= 0
           /\ Len(records) = Len(saved)
           /\ \A i \in ProcessedIndexes :
                 LET r == ProcessedRank(i)
                     face == ret.recognized_faces[r]
                     box == ret.detected[i].box
                 IN /\ face.box = box
                    /\ face.confidence = ret.detected[i].confidence
                    /\ face.label \in KnownLabels \cup {Unknown}
                    /\ saved[base + r].label = face.label
                    /\ saved[base + r].face_img =
                          [x |-> box[1], y |-> box[2], w |-> box[3], h |-> box[4]]
                    /\ records[base + r].name = face.label

\* A call on a frame with a face off the left edge, a face past the right
\* edge and a face inside: one face returned and recorded.
C3_Witness ==
    /\ RecognizeReturned
    /\ \E i \in 1..Len(ret.detected) : ret.detected[i].box[1] < 0
    /\ \E i \in 1..Len(ret.detected) :
          ret.detected[i].box[1] + ret.detected[i].box[3] > call.frame.w
    /\ Len(ret.recognized_faces) = 1
    /\ Len(saved) >= 1
    /\ saved[Len(saved)].label = ret.recognized_faces[1].label

\* C4: a None or empty frame passed to recognize_faces is rejected without
\* an exception: the call returns no faces and makes no recorder call.
C4_InvalidFrameNonFatal ==
    (RecognizeCalled /\ (call.frame.kind = "none" \/ call.frame.h * call.frame.w = 0)) =>
        /\ ~ret.raised
        /\ ret.recognized_faces = <<>>
        /\ ret.saves = <<>>

\* C6: no recognize_faces or save_face_image call changes the gallery:
\* known_faces_features and known_faces_labels keep their entries, in order,
\* and their equal lengths.
C6_GalleryUnchanged ==
    [][/\ known_faces_features' = known_faces_features
       /\ known_faces_labels' = known_faces_labels
       /\ Len(known_faces_features') = Len(known_faces_labels')]_vars

\* Two sightings recorded by recognize_faces with a gallery of two entries.
C6_Witness ==
    /\ RecognizeReturned
    /\ Len(records) = 2
    /\ Len(ret.saves) = 2
    /\ Len(known_faces_features) = 2
    /\ Len(known_faces_labels) = 2

SavedIndexes == 1..Len(saved)

SecondOf(i) == saved[i].t \div TicksPerSecond

PathOf(record) == <<"MEDIA_ROOT">> \o record.image

\* The last save_face_image call with the label and the second of call i.
LastSameSecond(i) ==
    CHOOSE k \in SavedIndexes :
        /\ saved[k].label = saved[i].label
        /\ SecondOf(k) = SecondOf(i)
        /\ \A m \in SavedIndexes :
              (saved[m].label = saved[i].label /\ SecondOf(m) = SecondOf(i))
                  => m <= k

\* C8: every save_face_image call creates one record, in call order, whose
\* image is faces_seen/{label}_{timestamp}.jpg, and writes the file there;
\* two sightings of one label have distinct paths when their times differ by
\* a second or more, and when both fall in the same second they share one
\* path, where the file holds the image of the later call.
C8_SightingsNotDeduplicated ==
    /\ Len(records) = Len(saved)
    /\ \A i \in SavedIndexes :
          /\ records[i].name = saved[i].label
          /\ records[i].image =
                <<"faces_seen", <<saved[i].label, "_", SecondOf(i), ".jpg">>>>
          /\ PathOf(records[i]) \in DOMAIN files
          /\ files[PathOf(records[i])] = saved[LastSameSecond(i)].face_img
    /\ \A i, j \in SavedIndexes :
          (i < j /\ saved[i].label = saved[j].label) =>
              /\ saved[j].t - saved[i].t >= TicksPerSecond =>
                    records[i].image # records[j].image
              /\ SecondOf(i) = SecondOf(j) =>
                    records[i].image = records[j].image
    /\ Cardinality(DOMAIN files) =
          Cardinality({<<saved[i].label, SecondOf(i)>> : i \in SavedIndexes})

\* Two faces of one label recorded in the same second by one recognize_faces
\* call: two records, one path, the file holding the second face.
C8_Witness ==
    /\ RecognizeReturned
    /\ Len(records) = 2
    /\ records[1].name = records[2].name
    /\ records[1].image = records[2].image
    /\ saved[1].face_img # saved[2].face_img
    /\ saved[1].t # saved[2].t
    /\ files[PathOf(records[2])] = saved[2].face_img

---------------------------------------------------------------------------
\* Properties of load_known_faces (under SpecLoad).

Loaded == call.op = "__init__" /\ ret # Idle

ImageExtensions == {"jpg", "jpeg", "png"}

\* The name ends in .jpg, .jpeg or .png.
IsImageName(name) ==
    /\ Len(name) >= 2
    /\ name[Len(name) - 1] = Dot
    /\ name[Len(name)] \in ImageExtensions

\* The dots of the name that start an extension: not leading ones.
ExtensionDots(name) ==
    {i \in 1..Len(name) : name[i] = Dot /\ \E k \in 1..(i - 1) : name[k] # Dot}

\* The name without its extension, the text from its last such dot on; a
\* name with no such dot, like .png, has no extension and is kept whole.
WithoutExtension(name) ==
    IF ExtensionDots(name) = {}
    THEN name
    ELSE [k \in 1..((CHOOSE i \in ExtensionDots(name) :
                        \A j \in ExtensionDots(name) : j <= i) - 1) |-> name[k]]

\* The candidates of the file's image at or above the default confidence.
ConfidentFaces(file) ==
    {i \in 1..Len(file.img.raw) : file.img.raw[i].confidence >= DefaultConfidence}

FirstFace(file) ==
    file.img.raw[CHOOSE i \in ConfidentFaces(file) :
                    \A j \in ConfidentFaces(file) : i <= j]

\* Readable, and at least one face detected in it.
Usable(file) == file.img.kind = "array" /\ ConfidentFaces(file) # {}

Enrolled(file) == IsImageName(file.name) /\ Usable(file)

EnrolledIndexes == {i \in 1..Len(known_faces_dir) : Enrolled(known_faces_dir[i])}

EnrolledRank(i) == Cardinality({j \in EnrolledIndexes : j <= i})

\* C7: load_known_faces does not raise; the gallery holds one entry per
\* readable .jpg/.jpeg/.png file with a detected face, in listing order,
\* labelled with the file name without extension and built from the first
\* detected face only; an unreadable or face-less image file adds no entry
\* and its failure is logged.
C7_GalleryIsBestEffort ==
    Loaded =>
        /\ ~ret.raised
        /\ Len(known_faces_labels) = Cardinality(EnrolledIndexes)
        /\ Len(known_faces_features) = Cardinality(EnrolledIndexes)
        /\ \A i \in EnrolledIndexes :
              LET file == known_faces_dir[i]
                  r == EnrolledRank(i)
              IN /\ known_faces_labels[r] = WithoutExtension(file.name)
                 /\ shape_predictor =>
                       known_faces_features[r] = FirstFace(file).feat
                 /\ ~shape_predictor =>
                       known_faces_features[r] = file.img.emb
        /\ \A i \in 1..Len(known_faces_dir) :
              LET file == known_faces_dir[i]
              IN (IsImageName(file.name) /\ ~Usable(file)) =>
                    \E k \in 1..Len(ret.log) :
                        ret.log[k] = <<"failed", WithoutExtension(file.name)>>

\* alice.jpg listed after the corrupt junk.png: the gallery is alice alone
\* and the failure of junk is logged.
C7_Witness ==
    /\ Loaded
    /\ known_faces_dir = <<junk_png, alice_jpg>>
    /\ known_faces_labels = <<<<"alice">>>>
    /\ ret.log = <<<<"failed", <<"junk">>>>>>

====
